---------------------------- MODULE Spec2Model ----------------------------
(***************************************************************************)
(* A model of subscale's PGS crop tool (pgsmod): the conversion loop of    *)
(* pgsmod/src/main.rs, its cropped_offset arithmetic on u16, the colour    *)
(* round trip of src/rgb.rs and the segment reader of src/seg.rs.          *)
(*                                                                         *)
(* Rust's u16 arithmetic either panics on overflow (overflow checks on,    *)
(* the debug profile) or wraps modulo 2^16 (checks off, the release        *)
(* profile); the profile is the variable overflow_checks, fixed at start.  *)
(***************************************************************************)
EXTENDS Integers, Sequences, FiniteSets, TLC

VARIABLES
    overflow_checks,  \* build profile: TRUE = overflow panics, FALSE = wraps
    crop_width,       \* --crop-width
    crop_height,      \* --crop-height
    margin,           \* --margin
    lum_scale,        \* --lum-scale: Nothing or Some factor [num, den]
    pc,               \* "running" | "done" | "panicked" (loop), "call" | "returned" (harness)
    panic,            \* the panic that ended the run, or "none"
    reads,            \* how many display sets read_display_set has returned
    last_read,        \* Some(the display set most recently read, as it was read)
    output,           \* the display sets written to the output stream, in order
    screen_sizes,     \* the observed-resolutions accumulator
    messages,         \* the "New resolution encountered" messages printed, in order
    tail_bytes,       \* Some(bytes of an unfinished segment left when the input ended)
    call,             \* harness: the arguments of the pure function under check
    ret               \* harness: what it returned

vars == <<overflow_checks, crop_width, crop_height, margin, lum_scale, pc, panic,
          reads, last_read, output, screen_sizes, messages, tail_bytes, call, ret>>

None == "none"

\* Option<T>: the empty sequence, or the value in a sequence of one.
Nothing == << >>

Some(v) == <<v>>

(***************************************************************************)
(* u16 arithmetic.                                                         *)
(***************************************************************************)
U16Max == 65535

Wrap(n) == n % (U16Max + 1)

Overflows(n) == n < 0 \/ n > U16Max

U8Max == 255

(***************************************************************************)
(* cropped_offset: what one call does.  panicked: an arithmetic overflow   *)
(* panic (only with overflow checks); warned: the margin warning was       *)
(* printed; value: the returned offset.                                    *)
(***************************************************************************)
Panicked == [panicked |-> TRUE, warned |-> FALSE, value |-> 0]

Returned(v, w) == [panicked |-> FALSE, warned |-> w, value |-> v]

\* The shift mis-parenthesised: (offset - (full - crop)) / 2.
cropped_offset_halved(screen_full_size, screen_crop_size, size, offset, margin_) ==
    LET twice == 2 * margin_
        fit == size + Wrap(twice)
    IN  IF (Overflows(twice) \/ Overflows(fit)) /\ overflow_checks THEN Panicked
        ELSE IF Wrap(fit) > screen_crop_size THEN Returned(0, TRUE)
        ELSE
        LET diff == screen_full_size - screen_crop_size
            new_raw == offset - Wrap(diff)
            new_offset == Wrap(new_raw) \div 2
        IN  IF (Overflows(diff) \/ Overflows(new_raw)) /\ overflow_checks THEN Panicked
            ELSE IF new_offset < margin_ THEN Returned(margin_, FALSE)
            ELSE
            LET end1 == new_offset + size
                end2 == Wrap(end1) + margin_
            IN  IF (Overflows(end1) \/ Overflows(end2)) /\ overflow_checks THEN Panicked
                ELSE IF Wrap(end2) > screen_crop_size
                THEN LET room1 == screen_crop_size - size
                         room2 == Wrap(room1) - margin_
                     IN  IF (Overflows(room1) \/ Overflows(room2)) /\ overflow_checks
                         THEN Panicked
                         ELSE Returned(Wrap(room2), FALSE)
                ELSE Returned(new_offset, FALSE)

cropped_offset(screen_full_size, screen_crop_size, size, offset, margin_) ==
    LET twice == 2 * margin_                       \* 2 * margin
        fit == size + Wrap(twice)                  \* size + 2 * margin
    IN  IF (Overflows(twice) \/ Overflows(fit)) /\ overflow_checks THEN Panicked
        ELSE IF Wrap(fit) > screen_crop_size THEN Returned(0, TRUE)
        ELSE
        LET diff == screen_full_size - screen_crop_size
            new_raw == offset - Wrap(diff) \div 2
            new_offset == Wrap(new_raw)
        IN  IF (Overflows(diff) \/ Overflows(new_raw)) /\ overflow_checks THEN Panicked
            ELSE IF new_offset < margin_ THEN Returned(margin_, FALSE)
            ELSE
            LET end1 == new_offset + size          \* o + size
                end2 == Wrap(end1) + margin_       \* o + size + margin
            IN  IF (Overflows(end1) \/ Overflows(end2)) /\ overflow_checks THEN Panicked
                ELSE IF Wrap(end2) > screen_crop_size
                THEN LET room1 == screen_crop_size - size
                         room2 == Wrap(room1) - margin_
                     IN  IF (Overflows(room1) \/ Overflows(room2)) /\ overflow_checks
                         THEN Panicked
                         ELSE Returned(Wrap(room2), FALSE)
                ELSE Returned(new_offset, FALSE)

(***************************************************************************)
(* Colour (src/rgb.rs).  The code works in f64; the model works in exact   *)
(* fixed point.  A linear-light value v is the integer v * 128 * 10^5      *)
(* (LinearUnit), so that every chroma term coefficient * (c - 128) / 128   *)
(* is an integer; a scaled pixel carries the denominator of its scale      *)
(* factor (den) instead of dividing.  powf has no integer form: EotfTable  *)
(* holds bt1886_eotf(expand(y / 255)) for each byte y, and OetfThresholds  *)
(* holds, for each luma code k = 17..235, the least linear value that      *)
(* round(compress(bt1886_oetf(l)) * 255) maps to k or more, both tabulated *)
(* from the f64 code; a threshold is OetfThresholds[k] units and           *)
(* OetfThresholdsLow[k] ten-thousandths of a unit.                         *)
(***************************************************************************)
LinearUnit == 128 * 100000

EotfTable ==
    << 0, 0, 0, 0, 0, 0, 0, 0, 0, 0, 0, 0, 0, 0, 0, 0, 0, 31, 163, 431, 860, 1469, 2275,
       3294, 4538, 6021, 7753, 9746, 12009, 14553, 17385, 20516, 23953, 27705, 31778,
       36181, 40921, 46005, 51439, 57230, 63384, 69909, 76809, 84091, 91760, 99823, 108284,
       117150, 126426, 136116, 146226, 156761, 167726, 179126, 190966, 203250, 215983,
       229169, 242814, 256921, 271495, 286540, 302060, 318061, 334545, 351516, 368980,
       386940, 405399, 424363, 443833, 463816, 484313, 505330, 526868, 548934, 571529,
       594657, 618323, 642528, 667278, 692575, 718423, 744826, 771785, 799306, 827390,
       856042, 885264, 915061, 945434, 976387, 1007924, 1040047, 1072759, 1106063, 1139964,
       1174462, 1209562, 1245267, 1281579, 1318501, 1356036, 1394188, 1432958, 1472350,
       1512366, 1553010, 1594284, 1636191, 1678734, 1721915, 1765737, 1810203, 1855315,
       1901076, 1947489, 1994556, 2042281, 2090665, 2139711, 2189421, 2239799, 2290847,
       2342567, 2394962, 2448034, 2501786, 2556220, 2611339, 2667145, 2723641, 2780828,
       2838710, 2897289, 2956567, 3016546, 3077230, 3138619, 3200717, 3263526, 3327048,
       3391285, 3456240, 3521916, 3588313, 3655435, 3723284, 3791861, 3861170, 3931213,
       4001991, 4073506, 4145762, 4218760, 4292502, 4366991, 4442228, 4518217, 4594958,
       4672454, 4750707, 4829719, 4909493, 4990030, 5071332, 5153402, 5236242, 5319853,
       5404238, 5489398, 5575337, 5662055, 5749554, 5837838, 5926907, 6016764, 6107411,
       6198849, 6291081, 6384108, 6477934, 6572558, 6667984, 6764213, 6861248, 6959090,
       7057740, 7157202, 7257477, 7358566, 7460473, 7563197, 7666742, 7771109, 7876301,
       7982318, 8089163, 8196838, 8305344, 8414684, 8524858, 8635870, 8747720, 8860411,
       8973944, 9088321, 9203544, 9319615, 9436535, 9554307, 9672931, 9792410, 9912746,
       10033939, 10155993, 10278909, 10402688, 10527332, 10652843, 10779222, 10906472,
       11034594, 11163589, 11293460, 11424208, 11555835, 11688342, 11821731, 11956004,
       12091163, 12227209, 12364143, 12501968, 12640685, 12800000, 12800000, 12800000,
       12800000, 12800000, 12800000, 12800000, 12800000, 12800000, 12800000, 12800000,
       12800000, 12800000, 12800000, 12800000, 12800000, 12800000, 12800000, 12800000,
       12800000, 12800000 >>

OetfThresholds ==
    << 5, 81, 278, 624, 1140, 1846, 2757, 3887, 5249, 6855, 8716, 10843, 13245, 15932,
       18912, 22195, 25789, 29700, 33938, 38508, 43419, 48677, 54289, 60261, 66599, 73311,
       80401, 87876, 95742, 104003, 112666, 121736, 131218, 141118, 151440, 162189, 173371,
       184990, 197051, 209559, 222518, 235933, 249809, 264149, 278958, 294240, 310000,
       326241, 342969, 360186, 377897, 396106, 414817, 434034, 453760, 473999, 494756,
       516033, 537835, 560164, 583025, 606422, 630357, 654835, 679858, 705430, 731554,
       758235, 785475, 813277, 841644, 870581, 900090, 930174, 960837, 992082, 1023911,
       1056328, 1089336, 1122938, 1157137, 1191936, 1227338, 1263346, 1299963, 1337191,
       1375034, 1413495, 1452576, 1492279, 1532609, 1573568, 1615158, 1657383, 1700244,
       1743745, 1787889, 1832677, 1878114, 1924200, 1970940, 2018336, 2066390, 2115104,
       2164482, 2214526, 2265239, 2316622, 2368679, 2421413, 2474824, 2528917, 2583693,
       2639156, 2695306, 2752147, 2809682, 2867912, 2926840, 2986468, 3046799, 3107835,
       3169579, 3232032, 3295197, 3359077, 3423673, 3488987, 3555023, 3621783, 3689268,
       3757481, 3826424, 3896099, 3966509, 4037656, 4109541, 4182168, 4255538, 4329653,
       4404516, 4480128, 4556492, 4633611, 4711485, 4790117, 4869510, 4949665, 5030585,
       5112271, 5194725, 5277950, 5361948, 5446721, 5532270, 5618598, 5705706, 5793598,
       5882274, 5971736, 6061988, 6153030, 6244865, 6337495, 6430921, 6525145, 6620170,
       6715998, 6812629, 6910067, 7008313, 7107369, 7207237, 7307919, 7409417, 7511732,
       7614867, 7718822, 7823601, 7929206, 8035637, 8142896, 8250987, 8359909, 8469666,
       8580259, 8691689, 8803960, 8917071, 9031026, 9145826, 9261473, 9377968, 9495314,
       9613512, 9732563, 9852470, 9973235, 10094858, 10217343, 10340690, 10464901,
       10589978, 10715923, 10842738, 10970423, 11098982, 11228415, 11358724, 11489911,
       11621978, 11754926, 11888757, 12023472, 12159074, 12295564, 12432944, 12571214,
       12710378 >>

OetfThresholdsLow ==
    << 8480, 6760, 3115, 773, 7358, 4837, 1925, 673, 468, 666, 2432, 95, 2162, 2116, 9043,
       8150, 1178, 6762, 721, 6317, 4469, 3944, 1527, 2158, 9069, 3898, 6788, 6485, 415,
       4768, 4562, 3703, 5052, 467, 861, 6240, 5749, 7709, 9652, 8356, 9875, 9570, 2133,
       1614, 1446, 4469, 2945, 8586, 2566, 5545, 7681, 8649, 7654, 3449, 4344, 8224, 2558,
       4412, 461, 6998, 9948, 4872, 6983, 1152, 1914, 3482, 9751, 4308, 436, 1126, 9079,
       6717, 6186, 9364, 7864, 3046, 6014, 7630, 8512, 9042, 9372, 9426, 8908, 7300, 3875,
       7694, 7611, 2281, 160, 9509, 8398, 4709, 6142, 214, 4264, 5456, 784, 7072, 976,
       8990, 7447, 2521, 233, 6446, 6875, 7087, 2500, 8389, 9889, 1992, 9554, 7294, 9799,
       1522, 6787, 9789, 4598, 5158, 5291, 8695, 8953, 9525, 3758, 4883, 6016, 162, 217,
       8965, 9084, 3145, 3614, 2852, 3120, 6576, 5277, 1183, 6155, 1957, 259, 2637, 570,
       5450, 8575, 1151, 4300, 9051, 6349, 7051, 1929, 1672, 6884, 8087, 5722, 149, 1646,
       415, 6578, 180, 1189, 9497, 4921, 7203, 6013, 947, 1528, 7208, 7370, 1324, 8312,
       7507, 8014, 8870, 9047, 7447, 2911, 4210, 55, 9090, 9898, 998, 847, 7840, 312, 6538,
       4730, 3044, 9575, 2360, 9379, 8553, 7747, 4769, 7372, 3253, 53, 5359, 6705, 1570,
       7379, 1505, 1270, 3941, 6737, 6822, 1312, 7271, 1714, 1606, 3864, 5353, 2892, 3253,
       3156, 9279, 8249, 6647, 1010, 7826, 3539 >>

\* bt1886_eotf(expand(input.y as f64 / 255.0)): below the legal-range floor 0,
\* above its ceiling 1.
LinearLuma(y) == EotfTable[y + 1]

rgb_linear_pixel(input) ==
    LET y == LinearLuma(input.y)
        cb == input.cb - 128       \* (cb - 128) / 128, in 1/128ths
        cr == input.cr - 128
    IN  [red   |-> y + 128033 * cr,
         green |-> y - 21482 * cb - 38059 * cr,
         blue  |-> y + 212798 * cb,
         den   |-> 1]

\* rgb.red *= factor; rgb.green *= factor; rgb.blue *= factor
ScalePixel(rgb, factor) ==
    [red   |-> rgb.red * factor.num,
     green |-> rgb.green * factor.num,
     blue  |-> rgb.blue * factor.num,
     den   |-> rgb.den * factor.den]

\* c_r * red + c_g * green + c_b * blue, exactly, as hi * 10^4 + lo with
\* 0 <= lo < 10^4: two limbs, so that no product leaves 32 bits.
Mix(c_r, c_g, c_b, rgb) ==
    LET hi == c_r * (rgb.red \div 10000) + c_g * (rgb.green \div 10000)
                + c_b * (rgb.blue \div 10000)
        lo == c_r * (rgb.red % 10000) + c_g * (rgb.green % 10000)
                + c_b * (rgb.blue % 10000)
    IN  [hi |-> hi + lo \div 10000, lo |-> lo % 10000]

\* Whether mixed / (10^4 * den) reaches the k-th threshold.
Reaches(mixed, den, k) ==
    LET low == den * OetfThresholdsLow[k]
        thi == den * OetfThresholds[k] + low \div 10000
        tlo == low % 10000
    IN  mixed.hi > thi \/ (mixed.hi = thi /\ mixed.lo >= tlo)

\* (compress(bt1886_oetf(l)) * 255.0).max(0.0).min(255.0).round() as u8, for
\* l = mixed / (10^4 * den) units: compress(0) * 255 rounds to 16, and each
\* threshold passed adds one.
GammaLuma(mixed, den) ==
    16 + Cardinality({k \in 1..Len(OetfThresholds) : Reaches(mixed, den, k)})

\* ((x + 1.0) * 128.0).max(0.0).min(255.0).round() as u8, for
\* x = mixed / (10^5 * 128 * den): round is floor(v + 0.5) on v >= 0.
GammaChroma(mixed, den) ==
    LET q == (mixed.hi + 128500000 * den) \div (1000000 * den)
    IN  IF q < 0 THEN 0 ELSE IF q > U8Max THEN U8Max ELSE q

\* The two chroma channels written to each other's field.
ycbcr_gamma_pixel_swapped(rgb) ==
    [y  |-> GammaLuma(Mix(2126, 7152, 722, rgb), rgb.den),
     cb |-> GammaChroma(Mix(61500, -55861, -5639, rgb), rgb.den),
     cr |-> GammaChroma(Mix(-9991, -33609, 43600, rgb), rgb.den)]

ycbcr_gamma_pixel(rgb) ==
    [y  |-> GammaLuma(Mix(2126, 7152, 722, rgb), rgb.den),
     cb |-> GammaChroma(Mix(-9991, -33609, 43600, rgb), rgb.den),
     cr |-> GammaChroma(Mix(61500, -55861, -5639, rgb), rgb.den)]

\* The body of the palette loop: decode, scale, re-encode; alpha is not read.
GradeEntry(entry, factor) ==
    LET ycbcr == ycbcr_gamma_pixel(
                     ScalePixel(rgb_linear_pixel([y |-> entry.y, cb |-> entry.cb,
                                                  cr |-> entry.cr]), factor))
    IN  [entry EXCEPT !.y = ycbcr.y, !.cb = ycbcr.cb, !.cr = ycbcr.cr]


(***************************************************************************)
(* The segment reader (src/seg.rs).  buf is the rest of the input, a       *)
(* sequence of bytes.  Every read_u8/read_u16/read_u32 is a read_exact: it *)
(* fails with an io::Error of kind UnexpectedEof when fewer bytes are left *)
(* than it asks for, whether none or some of them, and `?` turns that into *)
(* SegError::PrematureEof.  pos counts the bytes consumed so far.          *)
(***************************************************************************)
Has(buf, pos, n) == pos + n <= Len(buf)

U8At(buf, pos) == buf[pos + 1]

U16At(buf, pos) == buf[pos + 1] * 256 + buf[pos + 2]

\* A u32 is kept as its four bytes: no arithmetic is done on it.
U32At(buf, pos) == SubSeq(buf, pos + 1, pos + 4)

SegErr(e, at) == [ok |-> FALSE, err |-> e, pos |-> at, value |-> None]

SegOk(v, at) == [ok |-> TRUE, err |-> None, pos |-> at, value |-> v]

\* The loop `for _ in 0..comp_obj_count` of parse_pcs, with left records to go.
RECURSIVE ParseCompObjs(_, _, _, _)
ParseCompObjs(buf, pos, left, comp_objs) ==
    IF left = 0 THEN SegOk(comp_objs, pos)
    ELSE IF ~Has(buf, pos, 2) THEN SegErr("PrematureEof", pos)
    ELSE IF ~Has(buf, pos + 2, 1) THEN SegErr("PrematureEof", pos + 2)
    ELSE IF ~Has(buf, pos + 3, 1) THEN SegErr("PrematureEof", pos + 3)
    ELSE IF U8At(buf, pos + 3) \notin {64, 0}
         THEN SegErr("UnrecognizedCroppedFlag", pos + 4)
    ELSE IF ~Has(buf, pos + 4, 2) THEN SegErr("PrematureEof", pos + 4)
    ELSE IF ~Has(buf, pos + 6, 2) THEN SegErr("PrematureEof", pos + 6)
    ELSE
    LET cropped == U8At(buf, pos + 3) = 64
        base == [obj_id |-> U16At(buf, pos), win_id |-> U8At(buf, pos + 2),
                 cropped |-> cropped,
                 x |-> U16At(buf, pos + 4), y |-> U16At(buf, pos + 6)]
    IN  IF cropped
        THEN IF ~Has(buf, pos + 8, 2) THEN SegErr("PrematureEof", pos + 8)
             ELSE IF ~Has(buf, pos + 10, 2) THEN SegErr("PrematureEof", pos + 10)
             ELSE IF ~Has(buf, pos + 12, 2) THEN SegErr("PrematureEof", pos + 12)
             ELSE IF ~Has(buf, pos + 14, 2) THEN SegErr("PrematureEof", pos + 14)
             ELSE ParseCompObjs(buf, pos + 16, left - 1,
                      Append(comp_objs,
                          base @@ [x_cropped |-> Some(U16At(buf, pos + 8)),
                                   y_cropped |-> Some(U16At(buf, pos + 10)),
                                   width_cropped |-> Some(U16At(buf, pos + 12)),
                                   height_cropped |-> Some(U16At(buf, pos + 14))]))
        ELSE ParseCompObjs(buf, pos + 8, left - 1,
                 Append(comp_objs,
                     base @@ [x_cropped |-> Nothing, y_cropped |-> Nothing,
                              width_cropped |-> Nothing, height_cropped |-> Nothing]))

parse_pcs(buf, pos) ==
    IF ~Has(buf, pos, 2) THEN SegErr("PrematureEof", pos)           \* size
    ELSE IF ~Has(buf, pos + 2, 2) THEN SegErr("PrematureEof", pos + 2)   \* width
    ELSE IF ~Has(buf, pos + 4, 2) THEN SegErr("PrematureEof", pos + 4)   \* height
    ELSE IF ~Has(buf, pos + 6, 1) THEN SegErr("PrematureEof", pos + 6)
    ELSE IF U8At(buf, pos + 6) # 16 THEN SegErr("UnrecognizedFrameRate", pos + 7)
    ELSE IF ~Has(buf, pos + 7, 2) THEN SegErr("PrematureEof", pos + 7)   \* comp_num
    ELSE IF ~Has(buf, pos + 9, 1) THEN SegErr("PrematureEof", pos + 9)
    ELSE IF U8At(buf, pos + 9) \notin {0, 64, 128}
         THEN SegErr("UnrecognizedCompositionState", pos + 10)
    ELSE IF ~Has(buf, pos + 10, 1) THEN SegErr("PrematureEof", pos + 10)
    ELSE IF U8At(buf, pos + 10) \notin {0, 128}
         THEN SegErr("UnrecognizedPaletteUpdateFlag", pos + 11)
    ELSE IF ~Has(buf, pos + 11, 1) THEN SegErr("PrematureEof", pos + 11) \* pal_id
    ELSE IF ~Has(buf, pos + 12, 1) THEN SegErr("PrematureEof", pos + 12) \* count
    ELSE
    LET objs == ParseCompObjs(buf, pos + 13, U8At(buf, pos + 12), << >>)
    IN  IF ~objs.ok THEN objs
        ELSE SegOk([width |-> U16At(buf, pos + 2),
                    height |-> U16At(buf, pos + 4),
                    comp_num |-> U16At(buf, pos + 7),
                    comp_state |-> CASE U8At(buf, pos + 9) = 0 -> "Normal"
                                     [] U8At(buf, pos + 9) = 64 -> "AcquisitionPoint"
                                     [] OTHER -> "EpochStart",
                    pal_update |-> U8At(buf, pos + 10) = 128,
                    pal_id |-> U8At(buf, pos + 11),
                    comp_objs |-> objs.value], objs.pos)

read_seg(buf) ==
    IF ~Has(buf, 0, 2) THEN SegErr("PrematureEof", 0)
    ELSE IF U16At(buf, 0) # 20551 THEN SegErr("UnrecognizedMagicNumber", 2)  \* 0x5047
    ELSE IF ~Has(buf, 2, 4) THEN SegErr("PrematureEof", 2)          \* pts
    ELSE IF ~Has(buf, 6, 4) THEN SegErr("PrematureEof", 6)          \* dts
    ELSE IF ~Has(buf, 10, 1) THEN SegErr("PrematureEof", 10)
    ELSE IF U8At(buf, 10) # 22 THEN SegErr("UnrecognizedKind", 11)  \* 0x16
    ELSE
    LET body == parse_pcs(buf, 11)
    IN  IF ~body.ok THEN body
        ELSE SegOk([pts |-> U32At(buf, 2), dts |-> U32At(buf, 6),
                    body |-> body.value], body.pos)


(***************************************************************************)
(* The conversion loop (pgsmod/src/main.rs, lines 157-293).                *)
(*                                                                         *)
(* A display set is a record: pts, width, height, composition (a map from  *)
(* <<object_id, window_id>> to [x, y, crop]), windows (window id to        *)
(* [x, y, width, height]), palettes (palette id to entry index to          *)
(* [y, cb, cr, alpha]) and objects (<<id, version>> to                     *)
(* [width, height, data]).  The maps iterate in key order.                 *)
(***************************************************************************)
MaxOf(S) == CHOOSE m \in S : \A n \in S : n <= m

\* Key order of the maps: numbers (window ids), or pairs of numbers.
IdLess(a, b) == a < b

PairLess(a, b) == a[1] < b[1] \/ (a[1] = b[1] /\ a[2] < b[2])

\* The first key, in key order, whose outcome is a panic; None when none is.
FirstPanic(keys, less, outcome) ==
    LET bad == {k \in keys : outcome[k] # None}
    IN  IF bad = {} THEN None
        ELSE outcome[CHOOSE k \in bad : \A j \in bad : j = k \/ less[k, j]]

\* .filter(|(object_vid, _)| object_vid.id == cid.object_id)
ObjectSizes(ds, object_id) ==
    {ds.objects[vid] : vid \in {v \in DOMAIN ds.objects : v[1] = object_id}}

\* The bounding size is the smallest of the variants, not the largest.
ObjectSize_min(ds, object_id) ==
    LET sizes == ObjectSizes(ds, object_id)
    IN  [width  |-> -MaxOf({-s.width : s \in sizes}),
         height |-> -MaxOf({-s.height : s \in sizes})]

\* object_width / object_height: .max().unwrap() over the variants' sizes.
ObjectSize(ds, object_id) ==
    LET sizes == ObjectSizes(ds, object_id)
    IN  [width  |-> MaxOf({s.width : s \in sizes}),
         height |-> MaxOf({s.height : s \in sizes})]

\* The two cropped_offset calls of one composition object.
CompCalls(ds, cid) ==
    LET size == ObjectSize(ds, cid[1])
        composition_object == ds.composition[cid]
    IN  [x |-> cropped_offset(ds.width, crop_width, size.width,
                              composition_object.x, margin),
         y |-> cropped_offset(ds.height, crop_height, size.height,
                              composition_object.y, margin)]

\* How the body of the composition loop ends for one object.
CompPanic(ds, cid) ==
    IF ObjectSizes(ds, cid[1]) = {} THEN "unwrap"
    ELSE IF CompCalls(ds, cid).x.panicked \/ CompCalls(ds, cid).y.panicked
         THEN "overflow"
    ELSE None

\* The two cropped_offset calls of one window.
WindowCalls(ds, id) ==
    LET window == ds.windows[id]
    IN  [x |-> cropped_offset(ds.width, crop_width, window.width, window.x, margin),
         y |-> cropped_offset(ds.height, crop_height, window.height, window.y,
                              margin)]

WindowPanic(ds, id) ==
    IF WindowCalls(ds, id).x.panicked \/ WindowCalls(ds, id).y.panicked
    THEN "overflow" ELSE None

\* The crop rectangle is moved along with the object, as the legacy loop
\* (src/main.rs:134) did.
Remapped_with_crop(ds) ==
    [ds EXCEPT
        !.width = crop_width,
        !.height = crop_height,
        !.composition =
            [cid \in DOMAIN ds.composition |->
                [ds.composition[cid] EXCEPT
                    !.x = CompCalls(ds, cid).x.value,
                    !.y = CompCalls(ds, cid).y.value,
                    !.crop = IF @ = Nothing THEN @
                             ELSE Some([@[1] EXCEPT !.x = CompCalls(ds, cid).x.value,
                                                    !.y = CompCalls(ds, cid).y.value])]],
        !.windows =
            [id \in DOMAIN ds.windows |->
                [ds.windows[id] EXCEPT !.x = WindowCalls(ds, id).x.value,
                                       !.y = WindowCalls(ds, id).y.value]]]

\* Lines 177-226 with nothing panicking: the size fields and every offset.
Remapped(ds) ==
    [ds EXCEPT
        !.width = crop_width,
        !.height = crop_height,
        !.composition =
            [cid \in DOMAIN ds.composition |->
                [ds.composition[cid] EXCEPT !.x = CompCalls(ds, cid).x.value,
                                            !.y = CompCalls(ds, cid).y.value]],
        !.windows =
            [id \in DOMAIN ds.windows |->
                [ds.windows[id] EXCEPT !.x = WindowCalls(ds, id).x.value,
                                       !.y = WindowCalls(ds, id).y.value]]]

\* The pairs the two nested loops visit, in order: window_id_1 != window_id_2.
WindowPairs(ds) ==
    {p \in (DOMAIN ds.windows) \X (DOMAIN ds.windows) : p[1] # p[2]}

\* The check always passes.
PairPanic_off(ds, p) == None

\* One pair of the collision check (lines 232-241) on the remapped display set.
PairPanic(ds, p) ==
    LET window_1 == ds.windows[p[1]]
        window_2 == ds.windows[p[2]]
        ex == window_1.x + window_1.width
        ey == window_1.y + window_1.height
    IN  IF (Overflows(ex) \/ Overflows(ey)) /\ overflow_checks THEN "overflow"
        ELSE IF window_1.x <= window_2.x /\ window_2.x <= Wrap(ex)
                /\ window_1.y <= window_2.y /\ window_2.y <= Wrap(ey)
             THEN "collision"
        ELSE None

\* Lines 246-265: with a factor, every entry of every palette is regraded.
Graded(ds) ==
    IF lum_scale = Nothing THEN ds
    ELSE [ds EXCEPT
             !.palettes =
                 [pid \in DOMAIN ds.palettes |->
                     [idx \in DOMAIN ds.palettes[pid] |->
                         GradeEntry(ds.palettes[pid][idx], lum_scale[1])]]]

\* The Ok arm up to the write: the panic that ends it (None when none does) and
\* the display set handed to write_display_set.
Convert(ds) ==
    LET cids == DOMAIN ds.composition
        ids == DOMAIN ds.windows
        comp_panic == FirstPanic(cids, [a, b \in cids |-> PairLess(a, b)],
                                 [cid \in cids |-> CompPanic(ds, cid)])
        window_panic == FirstPanic(ids, [a, b \in ids |-> IdLess(a, b)],
                                   [id \in ids |-> WindowPanic(ds, id)])
    IN  IF comp_panic # None THEN [panic |-> comp_panic, ds |-> None]
        ELSE IF window_panic # None THEN [panic |-> window_panic, ds |-> None]
        ELSE
        LET remapped == Remapped(ds)
            pairs == WindowPairs(remapped)
            pair_panic == FirstPanic(pairs, [a, b \in pairs |-> PairLess(a, b)],
                                     [p \in pairs |-> PairPanic(remapped, p)])
        IN  IF pair_panic # None THEN [panic |-> pair_panic, ds |-> None]
            ELSE [panic |-> None, ds |-> Graded(remapped)]

\* Observe without the contains test.
Observe_always(seq, ds) ==
    Append(seq, [width |-> ds.width, height |-> ds.height])

\* Lines 162-175: the accumulator and the message for an unseen resolution.
Contains(seq, e) == \E i \in 1..Len(seq) : seq[i] = e

Observe(seq, ds) ==
    LET screen_size == [width |-> ds.width, height |-> ds.height]
    IN  IF Contains(seq, screen_size) THEN seq ELSE Append(seq, screen_size)


(***************************************************************************)
(* Reading and writing display sets.  The pgs crate's read_display_set and *)
(* write_display_set are not part of these sources; they are modelled from *)
(* the specification (4.2) and from the error arms main matches on.  The   *)
(* next thing on the input is an item: a whole display set, the bytes left *)
(* when the input ends (read with read_seg), an I/O failure, or a display  *)
(* set the assembler rejects.                                              *)
(***************************************************************************)
\* Pull segments until one fails; left is what the failing read_seg was given.
RECURSIVE ReadSegs(_)
ReadSegs(buf) ==
    LET r == read_seg(buf)
    IN  IF r.ok THEN ReadSegs(SubSeq(buf, r.pos + 1, Len(buf)))
        ELSE [err |-> r.err, left |-> Len(buf)]

read_display_set(item) ==
    CASE item.kind = "set" -> [ok |-> TRUE, ds |-> item.ds]
      [] item.kind = "bytes" ->
            LET r == ReadSegs(item.buf)
            IN  [ok |-> FALSE, left |-> Some(r.left),
                 err |-> [type |-> "SegmentError",
                          source |-> IF r.err = "PrematureEof"
                                     THEN [type |-> "IoError", kind |-> "UnexpectedEof"]
                                     ELSE [type |-> r.err, kind |-> None]]]
      [] item.kind = "io" ->
            [ok |-> FALSE, left |-> Nothing,
             err |-> [type |-> "SegmentError",
                      source |-> [type |-> "IoError", kind |-> "Other"]]]
      [] OTHER ->
            [ok |-> FALSE, left |-> Nothing,
             err |-> [type |-> "BitstreamError", source |-> None]]

\* The Err arm (lines 271-291): "break" or the panic.
HandleReadError(err) ==
    IF err.type = "SegmentError"
    THEN IF err.source.type = "IoError"
         THEN IF err.source.kind # "UnexpectedEof" THEN "io" ELSE "break"
         ELSE "segment"
    ELSE "bitstream"

(***************************************************************************)
(* The inputs.                                                             *)
(***************************************************************************)
MaxSets == 2

Window(x, y, w, h) == [x |-> x, y |-> y, width |-> w, height |-> h]

WBottom == Window(400, 900, 1000, 100)
WMid    == Window(400, 400, 1000, 100)
WInner  == Window(600, 920, 200, 50)
WTop    == Window(400, 50, 1000, 100)
WBarH   == Window(300, 500, 600, 50)
WBarV   == Window(500, 300, 50, 600)
WLeftA  == Window(10, 500, 400, 100)
WLeftB  == Window(100, 520, 200, 50)
WHuge   == Window(0, 0, 1900, 1080)

WindowMaps ==
    { << >>,
      0 :> WBottom,
      0 :> WTop,
      0 :> WHuge,
      0 :> WBottom @@ 1 :> WMid,
      0 :> WBottom @@ 1 :> WInner,
      0 :> WBarH @@ 1 :> WBarV,
      0 :> WLeftA @@ 1 :> WLeftB }

Entry(y, cb, cr, alpha) == [y |-> y, cb |-> cb, cr |-> cr, alpha |-> alpha]

SamplePalettes == 0 :> (0 :> Entry(180, 128, 128, 255) @@ 1 :> Entry(40, 100, 160, 128))

SampleObjects ==
    <<0, 0>> :> [width |-> 500, height |-> 200, data |-> <<1, 2, 3>>]
    @@ <<0, 1>> :> [width |-> 300, height |-> 150, data |-> <<4, 5>>]

NoContent == [composition |-> << >>, palettes |-> << >>, objects |-> << >>]

\* What a display set carries besides its windows: nothing; a cropped
\* composition object with its object definitions and a palette; a composition
\* object whose object this display set does not define.
Contents ==
    { NoContent,
      [composition |-> <<0, 0>> :> [x |-> 700, y |-> 900,
                                    crop |-> Some(Window(0, 0, 100, 50))],
       palettes |-> SamplePalettes, objects |-> SampleObjects],
      [composition |-> <<0, 0>> :> [x |-> 700, y |-> 900, crop |-> Nothing],
       palettes |-> << >>, objects |-> << >>] }


CropSizes == {<<1920, 800>>, <<1280, 720>>}

Margins == {0, 30}

LumScales == {Nothing, Some([num |-> 1, den |-> 2])}

DisplaySet(pts, width, height, w, c) ==
    [pts |-> pts, width |-> width, height |-> height,
     composition |-> c.composition, windows |-> w,
     palettes |-> c.palettes, objects |-> c.objects]

\* The display sets the input may hold next; pts numbers them.  Full-HD sets
\* with every window map and content, and two 1280x720 sets.
InputSets(pts) ==
    {DisplaySet(pts, 1920, 1080, w, c) : w \in WindowMaps, c \in Contents}
    \cup {DisplaySet(pts, 1280, 720, w, NoContent) : w \in {<< >>, 0 :> WMid}}

\* A presentation-composition segment with no composition objects: magic, pts,
\* dts, kind 0x16, size 11, 1920x1080, frame rate 0x10, number, state, flag,
\* palette id, count.
SamplePcs ==
    <<80, 71, 0, 0, 0, 1, 0, 0, 0, 1, 22, 0, 11,
      7, 128, 4, 56, 16, 0, 1, 128, 0, 0, 0>>

\* What may be left when the input ends: a prefix of a segment (nothing, one
\* byte, the 13 bytes before the body, or all of it), or bytes that are no
\* segment.
EndBuffers == {SubSeq(SamplePcs, 1, n) : n \in {0, 1, 13, Len(SamplePcs)}}

BadBuffers ==
    { <<71, 80, 0, 0>>,
      [SamplePcs EXCEPT ![11] = 128],
      [SamplePcs EXCEPT ![18] = 24] }

FailingItems ==
    {[kind |-> "bytes", buf |-> b] : b \in EndBuffers \cup BadBuffers}
    \cup {[kind |-> "io"], [kind |-> "bitstream"]}

(***************************************************************************)
(* The loop as a state machine: one action per way an iteration ends.      *)
(***************************************************************************)
HarnessIdle == call = Nothing /\ ret = Nothing

Init ==
    /\ overflow_checks \in BOOLEAN
    /\ \E crop \in CropSizes : crop_width = crop[1] /\ crop_height = crop[2]
    /\ margin \in Margins
    /\ lum_scale \in LumScales
    /\ pc = "running"
    /\ panic = None
    /\ reads = 0
    /\ last_read = Nothing
    /\ output = << >>
    /\ screen_sizes = << >>
    /\ messages = << >>
    /\ tail_bytes = Nothing
    /\ HarnessIdle

Settings == <<overflow_checks, crop_width, crop_height, margin, lum_scale>>

\* Lines 160-175: read_display_set returned Ok(display_set).
ReadOk(ds) ==
    /\ reads' = reads + 1
    /\ last_read' = Some(ds)
    /\ screen_sizes' = Observe(screen_sizes, ds)
    /\ messages' = IF Len(Observe(screen_sizes, ds)) > Len(screen_sizes)
                   THEN Append(messages, [width |-> ds.width, height |-> ds.height])
                   ELSE messages

\* An iteration that runs to the end of the Ok arm: the display set is written.
WriteDisplaySet ==
    /\ pc = "running"
    /\ reads < MaxSets
    /\ \E ds \in InputSets(reads + 1) :
          /\ Convert(ds).panic = None
          /\ ReadOk(ds)
          /\ output' = Append(output, Convert(ds).ds)
    /\ UNCHANGED <<Settings, pc, panic, tail_bytes, call, ret>>

\* An iteration that panics before the write: .unwrap() on no object size, an
\* arithmetic overflow, or a window collision.
ConvertPanics ==
    /\ pc = "running"
    /\ reads < MaxSets
    /\ \E ds \in InputSets(reads + 1) :
          /\ Convert(ds).panic # None
          /\ ReadOk(ds)
          /\ panic' = Convert(ds).panic
    /\ pc' = "panicked"
    /\ UNCHANGED <<Settings, output, tail_bytes, call, ret>>

\* write_display_set returned Err (lines 267-269).
WriteFails ==
    /\ pc = "running"
    /\ reads < MaxSets
    /\ \E ds \in InputSets(reads + 1) :
          /\ Convert(ds).panic = None
          /\ ReadOk(ds)
    /\ pc' = "panicked"
    /\ panic' = "write"
    /\ UNCHANGED <<Settings, output, tail_bytes, call, ret>>

\* read_display_set returned an error the Err arm panics on.
ReadFails ==
    /\ pc = "running"
    /\ \E item \in FailingItems :
          /\ HandleReadError(read_display_set(item).err) # "break"
          /\ panic' = HandleReadError(read_display_set(item).err)
    /\ pc' = "panicked"
    /\ UNCHANGED <<Settings, reads, last_read, output, screen_sizes, messages,
                   tail_bytes, call, ret>>

\* read_display_set returned the error the Err arm breaks on: the loop is left
\* and main returns.
EndOfInput ==
    /\ pc = "running"
    /\ \E item \in FailingItems :
          /\ HandleReadError(read_display_set(item).err) = "break"
          /\ tail_bytes' = read_display_set(item).left
    /\ pc' = "done"
    /\ UNCHANGED <<Settings, panic, reads, last_read, output, screen_sizes,
                   messages, call, ret>>

Next == WriteDisplaySet \/ ConvertPanics \/ WriteFails \/ ReadFails \/ EndOfInput

Spec == Init /\ [][Next]_vars

\* The loop in a build with overflow checks only (the debug profile).
InitChecked == Init /\ overflow_checks

SpecChecked == InitChecked /\ [][Next]_vars

(***************************************************************************)
(* cropped_offset on its own: the arguments are drawn at the start and one *)
(* action calls it.                                                        *)
(***************************************************************************)
LoopIdle ==
    /\ crop_width = 0 /\ crop_height = 0 /\ margin = 0 /\ lum_scale = Nothing
    /\ panic = None /\ reads = 0 /\ last_read = Nothing /\ output = << >>
    /\ screen_sizes = << >> /\ messages = << >> /\ tail_bytes = Nothing

OffsetFulls == {800, 1080, 1920, 65535}
OffsetCrops == {100, 800, 1280, 1920}
OffsetSizes == {0, 100, 200, 1900, 65535}
OffsetOffsets == {0, 10, 50, 140, 900, 960, 1700, 65500}
OffsetMargins == {0, 30, 32768}

InitOffset ==
    /\ overflow_checks \in BOOLEAN
    /\ LoopIdle
    /\ pc = "call"
    /\ call \in [full : OffsetFulls, crop : OffsetCrops, size : OffsetSizes,
                 offset : OffsetOffsets, margin : OffsetMargins]
    /\ ret = Nothing

CallCroppedOffset ==
    /\ pc = "call"
    /\ ret' = cropped_offset(call.full, call.crop, call.size, call.offset, call.margin)
    /\ pc' = "returned"
    /\ UNCHANGED <<Settings, panic, reads, last_read, output, screen_sizes, messages,
                   tail_bytes, call>>

NextOffset == CallCroppedOffset

SpecOffset == InitOffset /\ [][NextOffset]_vars

(***************************************************************************)
(* Grading one palette entry on its own.                                   *)
(***************************************************************************)
GradeLumas == 0..U8Max
GradeChromas == {0, 1, 64, 127, 128, 129, 192, 254, 255}
GradeFactors == {[num |-> 1, den |-> 1], [num |-> 1, den |-> 2]}

InitGrade ==
    /\ overflow_checks = FALSE
    /\ LoopIdle
    /\ pc = "call"
    /\ call \in [entry : {Entry(y, cb, cr, 255) :
                             y \in GradeLumas, cb \in GradeChromas, cr \in GradeChromas},
                 factor : GradeFactors]
    /\ ret = Nothing

CallGrade ==
    /\ pc = "call"
    /\ ret' = GradeEntry(call.entry, call.factor)
    /\ pc' = "returned"
    /\ UNCHANGED <<Settings, panic, reads, last_read, output, screen_sizes, messages,
                   tail_bytes, call>>

NextGrade == CallGrade

SpecGrade == InitGrade /\ [][NextGrade]_vars


(***************************************************************************)
(* read_seg on its own: the bytes of the input are drawn at the start and  *)
(* one action reads a segment from them.                                   *)
(***************************************************************************)
\* One composition object record with the given cropped-flag byte: object
\* id, window id, flag, x, y, and the four crop fields after a flag of 0x40.
CompObjBytes(flag) ==
    <<0, 1, 0, flag, 0, 100, 0, 200>>
    \o (IF flag = 64 THEN <<0, 0, 0, 0, 0, 50, 0, 20>> ELSE << >>)

RECURSIVE CompObjsBytes(_)
CompObjsBytes(flags) ==
    IF flags = << >> THEN << >>
    ELSE CompObjBytes(Head(flags)) \o CompObjsBytes(Tail(flags))

\* A segment: magic, pts, dts, kind, the declared body size, and the body.  A
\* presentation composition (0x16) has the 11 fixed bytes and its object
\* records; any other kind has a body of size zero bytes.
SegBytes(magic, kind, size, rate, state, flag, objs) ==
    magic \o <<0, 0, 0, 1, 0, 0, 0, 1, kind, size \div 256, size % 256>>
    \o (IF kind = 22
        THEN <<7, 128, 4, 56, rate, 0, 1, state, flag, 0, Len(objs)>>
             \o CompObjsBytes(objs)
        ELSE [i \in 1..size |-> 0])

SegMagics == {<<80, 71>>, <<71, 80>>}
SegKinds == {20, 21, 22, 23, 128, 0}
SegSizes == {0, 11, 19, 27}
SegRates == {16, 24}
SegStates == {0, 64, 128, 1}
SegFlags == {0, 128, 1}
SegObjs == {<< >>, <<0>>, <<64>>, <<1>>, <<0, 1>>, <<64, 0>>}
\* How much of the segment the input holds: all of it and what follows it, or
\* its first bytes only.
SegCuts == {0, 12, 20}

SegBuffers ==
    {LET whole == SegBytes(m, k, n, r, st, f, o)
     IN  IF cut = 0 THEN whole \o <<80, 71>>
         ELSE SubSeq(whole, 1, IF cut < Len(whole) THEN cut ELSE Len(whole)) :
        m \in SegMagics, k \in SegKinds, n \in SegSizes, r \in SegRates,
        st \in SegStates, f \in SegFlags, o \in SegObjs, cut \in SegCuts}

InitSeg ==
    /\ overflow_checks = FALSE
    /\ LoopIdle
    /\ pc = "call"
    /\ call \in [buf : SegBuffers]
    /\ ret = Nothing

CallReadSeg ==
    /\ pc = "call"
    /\ ret' = read_seg(call.buf)
    /\ pc' = "returned"
    /\ UNCHANGED <<Settings, panic, reads, last_read, output, screen_sizes, messages,
                   tail_bytes, call>>

NextSeg == CallReadSeg

SpecSeg == InitSeg /\ [][NextSeg]_vars


(***************************************************************************)
(* The claims.                                                             *)
(***************************************************************************)
\* The last display set read went through the whole Ok arm and was written:
\* the loop only goes on, or ends at the next read, after a write.
Written == pc \in {"running", "done"} /\ last_read # Nothing

LastIn == last_read[1]

LastOut == output[Len(output)]

\* The closed rectangles [x, x+width] x [y, y+height] of two windows share a point.
RectsShare(a, b) ==
    /\ a.x <= b.x + b.width /\ b.x <= a.x + a.width
    /\ a.y <= b.y + b.height /\ b.y <= a.y + a.height

\* The top-left corner of b lies in the closed rectangle of a.
CornerInside(a, b) ==
    /\ a.x <= b.x /\ b.x <= a.x + a.width
    /\ a.y <= b.y /\ b.y <= a.y + a.height

\* C1: every display set written to the output has pairwise non-overlapping
\* windows: no two distinct windows' closed rectangles share a point.
C1_WrittenWindowsDisjoint ==
    \A i \in 1..Len(output) :
        \A a, b \in DOMAIN output[i].windows :
            a # b => ~RectsShare(output[i].windows[a], output[i].windows[b])

\* The conversion of ds got as far as the collision check.
ReachesCollisionCheck(ds) ==
    /\ \A cid \in DOMAIN ds.composition : CompPanic(ds, cid) = None
    /\ \A id \in DOMAIN ds.windows : WindowPanic(ds, id) = None

\* C2: for a display set that reaches the collision check, the run takes the
\* fatal collision path if and only if the top-left corner of one remapped
\* window lies inside the closed rectangle of another.
C2_CollisionIffCornerInside ==
    (last_read # Nothing /\ ReachesCollisionCheck(LastIn)) =>
        ( (pc = "panicked" /\ panic = "collision")
          <=> \E a, b \in DOMAIN LastIn.windows :
                  /\ a # b
                  /\ CornerInside(Remapped(LastIn).windows[a],
                                  Remapped(LastIn).windows[b]) )

Clamp(v, lo, hi) == IF v < lo THEN lo ELSE IF v > hi THEN hi ELSE v

\* C3: when full >= crop and size + 2*margin <= crop, cropped_offset returns
\* the signed shift offset - (full - crop)/2 clamped into
\* [margin, crop - size - margin], and never fails.
C3_ClampedSignedShift ==
    (pc = "returned" /\ call.full >= call.crop
       /\ call.size + 2 * call.margin <= call.crop) =>
        /\ ~ret.panicked
        /\ ret.value = Clamp(call.offset - (call.full - call.crop) \div 2,
                             call.margin, call.crop - call.size - call.margin)

\* C4: when size + 2*margin > crop, cropped_offset returns 0, prints the
\* warning and never fails.
C4_TooLargeIsZeroWithWarning ==
    (pc = "returned" /\ call.size + 2 * call.margin > call.crop) =>
        ret = Returned(0, TRUE)

\* C5 as stated: with full = crop, cropped_offset returns the offset unchanged
\* for every item that fits the crop with its margins and lies on the screen.
C5_IdentityWhenUncropped ==
    (pc = "returned" /\ call.full = call.crop
       /\ call.size + 2 * call.margin <= call.crop
       /\ call.offset + call.size <= call.full) =>
        ret = Returned(call.offset, FALSE)

\* C5 as amended: with full = crop and an item that fits with its margins,
\* cropped_offset returns the offset unchanged when
\* margin <= offset <= crop - size - margin, and returns margin for a smaller
\* offset.
C5_IdentityWithinMargins ==
    (pc = "returned" /\ call.full = call.crop
       /\ call.size + 2 * call.margin <= call.crop) =>
        /\ (call.margin <= call.offset
              /\ call.offset + call.size + call.margin <= call.crop)
           => ret = Returned(call.offset, FALSE)
        /\ call.offset < call.margin => ret = Returned(call.margin, FALSE)

C5_Witness ==
    /\ pc = "returned" /\ call.full = 1920 /\ call.crop = 1920
    /\ call.margin = 30 /\ call.size = 100 /\ call.offset = 900
    /\ ret = Returned(900, FALSE)

\* A display set made of a presentation composition only: it places an object
\* and carries no window, object or palette definition.
IsCompositionOnly(ds) ==
    /\ ds.composition # << >>
    /\ ds.windows = << >> /\ ds.objects = << >> /\ ds.palettes = << >>

ConvertPanicKinds == {"unwrap", "overflow", "collision"}

Variants(ds, object_id) ==
    {ds.objects[v] : v \in {u \in DOMAIN ds.objects : u[1] = object_id}}

\* One axis of the amended rule: the item fits, its shifted offset is not
\* negative, and shifted + size + margin exceeds the crop within 16 bits.
PastUpperBound(full, crop, size, offset) ==
    /\ full >= crop
    /\ size + 2 * margin <= crop
    /\ offset - (full - crop) \div 2 >= 0
    /\ offset - (full - crop) \div 2 + size + margin > crop
    /\ offset - (full - crop) \div 2 + size + margin <= U16Max

C7_CleanEndOnlyAtBoundary ==
    pc = "done" => tail_bytes = Some(0)

\* The collision test of lines 232-236, in the u16 arithmetic of the build.
CheckRejects(w1, w2) ==
    /\ w1.x <= w2.x /\ w2.x <= Wrap(w1.x + w1.width)
    /\ w1.y <= w2.y /\ w2.y <= Wrap(w1.y + w1.height)

C8_State ==
    \* written in the order read, each once: the k-th written is the k-th read
    /\ \A i \in 1..Len(output) : output[i].pts = i
    \* the display set a panic of the Ok arm stopped at was not written; every
    \* other display set read was
    /\ Len(output) = IF pc = "panicked" /\ panic \in ConvertPanicKinds \cup {"write"}
                     THEN reads - 1 ELSE reads
    \* no display set the collision check rejects was written
    /\ \A i \in 1..Len(output) :
           \A a, b \in DOMAIN output[i].windows :
               a # b => ~CheckRejects(output[i].windows[a], output[i].windows[b])
    \* a fatal condition leaves nothing to do
    /\ pc = "panicked" => ~ENABLED Next

C8_Step ==
    /\ pc = "running"
    /\ reads' \in {reads, reads + 1}
    /\ \/ output' = output
       \/ /\ Len(output') = Len(output) + 1
          /\ SubSeq(output', 1, Len(output)) = output
          /\ reads' = reads + 1

\* C8: a fatal condition (read error, overflow, collision, write error) stops
\* the run: the display set it occurred at is not written, nothing is read or
\* written after it, what was written before stays, and display sets are
\* written in the order read, each at most once.
C8_FatalStopsRun == [] C8_State /\ [][C8_Step]_vars

C8_Witness ==
    /\ pc = "panicked" /\ panic = "collision"
    /\ reads = 2 /\ Len(output) = 1


Within1(a, b) == a - b <= 1 /\ b - a <= 1

IsOne(factor) == factor.num = factor.den

\* C9 as stated: graded with factor 1.0, every byte triple comes back with
\* each of luma, chroma-blue and chroma-red at most 1 from the original.
C9_RoundTripEveryTriple ==
    (pc = "returned" /\ IsOne(call.factor)) =>
        /\ Within1(ret.y, call.entry.y)
        /\ Within1(ret.cb, call.entry.cb)
        /\ Within1(ret.cr, call.entry.cr)

\* C9 as amended: graded with factor 1.0, a triple whose luma is in 16..236
\* comes back with its luma at most 1 from the original, and every triple
\* comes back with its chroma-blue and chroma-red unchanged; a luma below 16
\* comes back as 16 or 17 and one above 236 as 235 (the legal range).
C9_RoundTripLegalLuma ==
    (pc = "returned" /\ IsOne(call.factor)) =>
        /\ ret.cb = call.entry.cb
        /\ ret.cr = call.entry.cr
        /\ ret.alpha = call.entry.alpha
        /\ call.entry.y \in 16..236 => Within1(ret.y, call.entry.y)
        /\ call.entry.y < 16 => ret.y \in {16, 17}
        /\ call.entry.y > 236 => ret.y = 235

C9_Witness ==
    /\ pc = "returned" /\ IsOne(call.factor)
    /\ call.entry = Entry(16, 255, 255, 255)
    /\ ret = Entry(17, 255, 255, 255)

\* What conversion leaves alone in one display set.
SameButPositions(before, after) ==
    /\ after.pts = before.pts
    /\ after.objects = before.objects
    /\ DOMAIN after.windows = DOMAIN before.windows
    /\ \A id \in DOMAIN before.windows :
           /\ after.windows[id].width = before.windows[id].width
           /\ after.windows[id].height = before.windows[id].height
    /\ DOMAIN after.composition = DOMAIN before.composition
    /\ \A cid \in DOMAIN before.composition :
           after.composition[cid].crop = before.composition[cid].crop
    /\ DOMAIN after.palettes = DOMAIN before.palettes
    /\ \A pid \in DOMAIN before.palettes :
           /\ DOMAIN after.palettes[pid] = DOMAIN before.palettes[pid]
           /\ \A idx \in DOMAIN before.palettes[pid] :
                  after.palettes[pid][idx].alpha = before.palettes[pid][idx].alpha

\* C10: converting a display set changes only its width and height (to the
\* crop size), the x and y of its composition objects and windows and, only
\* with a luminance scale, the luma and chroma of its palette entries; window
\* sizes, ids, crop rectangles, object definitions, alpha values and the pts
\* are written as read, and so are the palettes without a luminance scale.
C10_OnlyPositionsAndColours ==
    Written =>
        /\ SameButPositions(LastIn, LastOut)
        /\ LastOut.width = crop_width /\ LastOut.height = crop_height
        /\ lum_scale = Nothing => LastOut.palettes = LastIn.palettes

C10_Witness ==
    /\ Written
    /\ lum_scale # Nothing
    /\ \E pid \in DOMAIN LastIn.palettes : LastOut.palettes[pid] # LastIn.palettes[pid]
    /\ \E cid \in DOMAIN LastIn.composition :
           /\ LastIn.composition[cid].crop # Nothing
           /\ LastOut.composition[cid].y # LastIn.composition[cid].y
    /\ \E id \in DOMAIN LastIn.windows : LastOut.windows[id].y # LastIn.windows[id].y

\* The segment kinds of the format: PaletteDefinition, ObjectDefinition,
\* PresentationComposition, WindowDefinition, End.
KnownKinds == {20, 21, 22, 23, 128}

SegReturned == pc = "returned" /\ call # Nothing /\ "buf" \in DOMAIN call

GoodMagic(buf) == Has(buf, 0, 2) /\ U16At(buf, 0) = 20551

\* Some composition object record, of the left ones from pos on, has a cropped
\* flag other than 0x00 and 0x40, all records before it being whole.
RECURSIVE BadCroppedFlag(_, _, _)
BadCroppedFlag(buf, pos, left) ==
    /\ left > 0
    /\ Has(buf, pos, 4)
    /\ \/ U8At(buf, pos + 3) \notin {0, 64}
       \/ LET len == IF U8At(buf, pos + 3) = 64 THEN 16 ELSE 8
          IN  Has(buf, pos, len) /\ BadCroppedFlag(buf, pos + len, left - 1)

\* The error of the first offending field of a presentation-composition body
\* whose fixed part (11 bytes after the size) is all there; None when no field
\* offends.
FirstOffending(buf) ==
    IF U8At(buf, 17) # 16 THEN "UnrecognizedFrameRate"
    ELSE IF U8At(buf, 20) \notin {0, 64, 128} THEN "UnrecognizedCompositionState"
    ELSE IF U8At(buf, 21) \notin {0, 128} THEN "UnrecognizedPaletteUpdateFlag"
    ELSE IF BadCroppedFlag(buf, 24, U8At(buf, 23)) THEN "UnrecognizedCroppedFlag"
    ELSE None

\* What C11 says of magic, body fields and unknown kinds.
C11_MagicAndFields ==
    SegReturned =>
        LET buf == call.buf
        IN  /\ ret.ok => GoodMagic(buf)
            /\ (Has(buf, 0, 2) /\ ~GoodMagic(buf))
                   => (~ret.ok /\ ret.err = "UnrecognizedMagicNumber")
            /\ (GoodMagic(buf) /\ Has(buf, 10, 1) /\ U8At(buf, 10) \notin KnownKinds)
                   => (~ret.ok /\ ret.err = "UnrecognizedKind")
            /\ (GoodMagic(buf) /\ Has(buf, 0, 24) /\ U8At(buf, 10) = 22
                    /\ FirstOffending(buf) # None)
                   => (~ret.ok /\ ret.err = FirstOffending(buf))

\* C11: read_seg returns a segment only when the first two bytes are 0x5047
\* and otherwise fails with the magic-number error; a presentation-composition
\* body fails with the error of its first offending field in stream order; an
\* unknown kind tag fails with the unrecognized-kind error, and none of the
\* five kinds of the format is refused as unrecognized.
C11_MagicFieldsAndKinds ==
    /\ C11_MagicAndFields
    /\ SegReturned =>
           LET buf == call.buf
           IN  (GoodMagic(buf) /\ Has(buf, 10, 1) /\ U8At(buf, 10) \in KnownKinds)
                   => ret.err # "UnrecognizedKind"

\* A whole End segment (kind 0x80, size 0) was read and refused.
C11_EndRefused ==
    /\ SegReturned
    /\ GoodMagic(call.buf) /\ Has(call.buf, 0, 13)
    /\ U8At(call.buf, 10) = 128 /\ U16At(call.buf, 11) = 0
    /\ ~ret.ok /\ ret.err = "UnrecognizedKind"

\* C13: after a successful read of a presentation-composition segment the
\* stream position is 13 + body-size bytes past the segment start, body-size
\* being the value of the 2-byte size field.
C13_ConsumesDeclaredSize ==
    (SegReturned /\ ret.ok) => ret.pos = 13 + U16At(call.buf, 11)

\* A segment with no composition objects whose size field says 0 was read
\* whole: the 11 fixed body bytes were consumed all the same.
C13_ReadPastDeclaredSize ==
    /\ SegReturned /\ ret.ok
    /\ U16At(call.buf, 11) = 0
    /\ ret.value.body.comp_objs = << >>
    /\ ret.pos = 24

SizeOf(ds) == [width |-> ds.width, height |-> ds.height]

NoDuplicates(seq) ==
    \A i, j \in 1..Len(seq) : seq[i] = seq[j] => i = j

\* In every state of the loop: the accumulator has no duplicate, the messages
\* emitted are its entries in order, it holds the original resolution of the
\* display set read last, and no more entries than display sets read.
C12_State ==
    /\ NoDuplicates(screen_sizes)
    /\ messages = screen_sizes
    /\ Len(screen_sizes) <= reads
    /\ last_read # Nothing => Contains(screen_sizes, SizeOf(LastIn))

\* In every step of the loop: reading a display set whose original resolution
\* is not in the accumulator appends it and emits its message; any other step
\* leaves the accumulator and the messages as they are.
C12_Step ==
    IF reads' = reads + 1 /\ last_read' # Nothing
           /\ ~Contains(screen_sizes, SizeOf(last_read'[1]))
    THEN /\ screen_sizes' = Append(screen_sizes, SizeOf(last_read'[1]))
         /\ messages' = Append(messages, SizeOf(last_read'[1]))
    ELSE UNCHANGED <<screen_sizes, messages>>

\* C12: the observed-resolutions accumulator never holds a duplicate, grows
\* only when a display set's original width/height pair is not yet in it, and
\* the new-resolution message is emitted exactly once per distinct original
\* resolution, at the first display set that carries it; the crop size is
\* observed only when an input display set originally had it.
C12_ObservedOncePerResolution == [] C12_State /\ [][C12_Step]_vars

\* Two display sets of one resolution were read and written with the crop size
\* 1280x720: the accumulator holds 1920x1080 once, and not the crop size.
C12_Witness ==
    /\ reads = 2
    /\ Len(output) = 2
    /\ crop_width = 1280 /\ crop_height = 720
    /\ output[1].width = 1280 /\ output[2].width = 1280
    /\ screen_sizes = <<[width |-> 1920, height |-> 1080]>>
    /\ messages = screen_sizes


=============================================================================
